---- MODULE Spec2Model ----
(***************************************************************************)
(* A model of json_semi_beautifier.py: the inline classifier               *)
(* (SemiBeautifier.should_inline), the layout renderer                     *)
(* (SemiBeautifier.format_value, beautify), the two json.dumps encodings   *)
(* they use, the json.load decoder, and the per-file loop of main().       *)
(*                                                                         *)
(* Text is a sequence of one-character strings.  A JSON value is a tagged  *)
(* record; an object is the insertion-ordered sequence of its <<key,       *)
(* value>> pairs (a Python dict), with pairwise distinct keys.             *)
(***************************************************************************)
EXTENDS Integers, Sequences, FiniteSets, TLC

VARIABLES
    mode,        \* "core": one call of the formatter; "cli": one run of main()
    cfg,         \* the SemiBeautifier's fields (max_inline_length, max_inline_items, indent)
    obj,         \* core: the value handed to should_inline / format_value
    depth,       \* core: the depth argument of format_value
    pc,          \* core: "start", "classified", "formatted", "loaded"
    inl,         \* core: the result of should_inline(obj)
    out,         \* core: the result of format_value(obj, depth)
    back,        \* core: the result of json.loads(out)
    files,       \* cli: args.files
    in_place,    \* cli: args.in_place
    fs,          \* cli: the file system, path -> content (Missing when absent)
    idx,         \* cli: position of the for loop in args.files (1-based)
    stage,       \* cli: where the loop body stands for files[idx]
    data,        \* cli: the local `data` (json.load's result)
    formatted,   \* cli: the local `formatted`
    attempted,   \* cli: the paths whose loop body has been entered, in order
    stderr,      \* cli: the reports printed to sys.stderr, in order
    stdout,      \* cli: the reports printed to sys.stdout, in order
    opened_w     \* cli: the paths opened with mode 'w', in order

vars == <<mode, cfg, obj, depth, pc, inl, out, back, files, in_place, fs, idx,
          stage, data, formatted, attempted, stderr, stdout, opened_w>>

coreVars == <<obj, depth, pc, inl, out, back>>
cliVars == <<files, in_place, fs, idx, stage, data, formatted, attempted,
             stderr, stdout, opened_w>>

(***************************************************************************)
(* Bounds of the model.                                                    *)
(***************************************************************************)
MaxLen == 3        \* longest array drawn over the element sets
MaxIota == 5       \* longest array [1, 2, ..., n] of integers
MaxDepth == 1      \* largest depth argument of format_value
MaxIndent == 2     \* largest --indent

(***************************************************************************)
(* JSON values.                                                            *)
(***************************************************************************)
JNull == [t |-> "null"]
JBool(b) == [t |-> "bool", b |-> b]
JNum(n) == [t |-> "num", n |-> n]
JStr(s) == [t |-> "str", s |-> s]
JArr(a) == [t |-> "arr", a |-> a]
JObj(kv) == [t |-> "obj", kv |-> kv]

IsScalar(v) == v.t \in {"null", "bool", "num", "str"}

\* len(obj) of a dict or a list
Size(v) == IF v.t = "arr" THEN Len(v.a) ELSE Len(v.kv)

\* obj.values() of a dict, or the items of a list
Children(v) == IF v.t = "arr" THEN v.a ELSE [i \in 1..Len(v.kv) |-> v.kv[i][2]]

(***************************************************************************)
(* Text helpers.                                                           *)
(***************************************************************************)
RECURSIVE Rep(_, _)
\* s * n
Rep(s, n) == IF n <= 0 THEN <<>> ELSE s \o Rep(s, n - 1)

RECURSIVE Join(_, _)
\* sep.join(parts)
Join(parts, sep) ==
    IF Len(parts) = 0 THEN <<>>
    ELSE IF Len(parts) = 1 THEN parts[1]
    ELSE parts[1] \o sep \o Join(Tail(parts), sep)

Digit(d) == <<"0", "1", "2", "3", "4", "5", "6", "7", "8", "9">>[d + 1]

RECURSIVE NatText(_)
NatText(n) == IF n < 10 THEN <<Digit(n)>> ELSE NatText(n \div 10) \o <<Digit(n % 10)>>

\* int.__repr__, which json.dumps uses for an int
IntText(n) == IF n < 0 THEN <<"-">> \o NatText(-n) ELSE NatText(n)

(***************************************************************************)
(* json.dumps: the encoder, with its separators.                           *)
(***************************************************************************)
\* the escape json.dumps writes for one character of a string
EscapeChar(c) ==
    CASE c = "\"" -> <<"\\", "\"">>
      [] c = "\\" -> <<"\\", "\\">>
      [] c = "\n" -> <<"\\", "n">>
      [] c = "\t" -> <<"\\", "t">>
      [] c = "\r" -> <<"\\", "r">>
      [] OTHER -> <<c>>

RECURSIVE EscapeText(_)
EscapeText(s) == IF s = <<>> THEN <<>> ELSE EscapeChar(Head(s)) \o EscapeText(Tail(s))

\* json.dumps of a str: quoted and escaped
DumpsStr(s) == <<"\"">> \o EscapeText(s) \o <<"\"">>

RECURSIVE Dumps(_, _, _)
\* json.dumps(v, separators=(isep, ksep))
Dumps(v, isep, ksep) ==
    CASE v.t = "null" -> <<"n", "u", "l", "l">>
      [] v.t = "bool" -> IF v.b THEN <<"t", "r", "u", "e">> ELSE <<"f", "a", "l", "s", "e">>
      [] v.t = "num" -> IntText(v.n)
      [] v.t = "str" -> DumpsStr(v.s)
      [] v.t = "arr" ->
            <<"[">> \o Join([i \in 1..Len(v.a) |-> Dumps(v.a[i], isep, ksep)], isep) \o <<"]">>
      [] v.t = "obj" ->
            <<"{">>
            \o Join([i \in 1..Len(v.kv) |->
                        DumpsStr(v.kv[i][1]) \o ksep \o Dumps(v.kv[i][2], isep, ksep)], isep)
            \o <<"}">>

\* json.dumps(obj, separators=(',', ':'))
DumpsCompact(v) == Dumps(v, <<",">>, <<":">>)

\* json.dumps(obj, separators=(', ', ': ')), and json.dumps(obj) for a scalar
DumpsSpaced(v) == Dumps(v, <<",", " ">>, <<":", " ">>)

(***************************************************************************)
(* SemiBeautifier.should_inline                                            *)
(***************************************************************************)
KeyVar == <<"v", "a", "r">>
KeyEq == <<"=", "=">>
KeyNe == <<"!", "=">>
KeyGt == <<">">>
KeyLt == <<"<">>
KeyGe == <<">", "=">>
KeyLe == <<"<", "=">>
KeyIn == <<"i", "n">>
KeyCat == <<"c", "a", "t">>
KeySubstr == <<"s", "u", "b", "s", "t", "r">>
KeyIf == <<"i", "f">>
KeyAnd == <<"a", "n", "d">>
KeyOr == <<"o", "r">>

\* mutant: 'substr' is missing from the list
OPERATORS_NoSubstr == {KeyVar, KeyEq, KeyNe, KeyGt, KeyLt, KeyGe, KeyLe, KeyIn, KeyCat}

\* the list of "common JSONLogic operators"
OPERATORS == {KeyVar, KeyEq, KeyNe, KeyGt, KeyLt, KeyGe, KeyLe, KeyIn, KeyCat, KeySubstr}

\* the test of the operator shorthand: a dict of one key, the key an operator
IsShorthand(v) == v.t = "obj" /\ Len(v.kv) = 1 /\ v.kv[1][1] \in OPERATORS

\* mutant: >= for >
SizeOK_Ge(v, c) == ~(Size(v) >= c.max_inline_items)

\* "Check size constraints": False is returned when len(obj) > max_inline_items
SizeOK(v, c) == ~(Size(v) > c.max_inline_items)

\* mutant: < for <=
LengthOK_Strict(v, c) == Len(DumpsCompact(v)) < c.max_inline_length

\* "Check estimated length"
LengthOK(v, c) == Len(DumpsCompact(v)) <= c.max_inline_length

RECURSIVE should_inline(_, _)

\* mutant: the operator shorthand is accepted without a look at its value
should_inline_ShallowShorthand(v, c) ==
    IF IsScalar(v) THEN TRUE
    ELSE IF IsShorthand(v) THEN TRUE
    ELSE IF ~SizeOK(v, c) THEN FALSE
    ELSE IF \E i \in 1..Size(v) : ~should_inline(Children(v)[i], c) THEN FALSE
    ELSE LengthOK(v, c)

should_inline(v, c) ==
    IF IsScalar(v) THEN TRUE
    ELSE IF IsShorthand(v) THEN should_inline(v.kv[1][2], c)
    ELSE IF ~SizeOK(v, c) THEN FALSE
    ELSE IF \E i \in 1..Size(v) : ~should_inline(Children(v)[i], c) THEN FALSE
    ELSE LengthOK(v, c)

(***************************************************************************)
(* SemiBeautifier.format_value and beautify                                *)
(***************************************************************************)
NL == <<"\n">>

\* self.indent_str = ' ' * indent
indent_str(c) == Rep(<<" ">>, c.indent)

\* key == 'if' and isinstance(value, list) and len(value) >= 2
IsIfLayout(key, value) == key = KeyIf /\ value.t = "arr" /\ Len(value.a) >= 2

\* mutant: >= 2 for > 2, as in the 'if' layout
IsAndOrLayout_Ge2(key, value) ==
    key \in {KeyAnd, KeyOr} /\ value.t = "arr" /\ Len(value.a) >= 2

\* key in ['and', 'or'] and isinstance(value, list) and len(value) > 2
IsAndOrLayout(key, value) == key \in {KeyAnd, KeyOr} /\ value.t = "arr" /\ Len(value.a) > 2

\* one turn of the loops "for i, item in enumerate(value)": the text added to result
BracketItem(fitem, i, n, next_indent) ==
    next_indent \o fitem \o (IF i < n - 1 THEN <<",">> ELSE <<>>) \o NL

\* f'{next_indent}"{k}": {formatted_value}': the key is written as it is
ObjectItem(k, fvalue, next_indent) ==
    next_indent \o <<"\"">> \o k \o <<"\"", ":", " ">> \o fvalue

\* all(isinstance(item, (str, int, float, bool, type(None))) for item in obj)
AllScalar(v) == \A i \in 1..Len(v.a) : IsScalar(v.a[i])

\* mutant: the length of the compact encoding is tested, as should_inline does
SimpleFormatFits_Compact(v, c) == Len(DumpsCompact(v)) <= c.max_inline_length

\* len(simple_format) <= self.max_inline_length
SimpleFormatFits(v, c) == Len(DumpsSpaced(v)) <= c.max_inline_length

RECURSIVE format_value(_, _, _)
format_value(v, d, c) ==
    LET indent == Rep(indent_str(c), d)
        next_indent == Rep(indent_str(c), d + 1)
        \* the loops of the 'if' and 'and'/'or' layouts; i counts from 0 as enumerate does
        Bracket(key, value) ==
            <<"{", " ", "\"">> \o key \o <<"\"", ":", " ", "[">> \o NL
            \o Join([i \in 1..Len(value.a) |->
                       BracketItem(format_value(value.a[i], d + 1, c), i - 1,
                                   Len(value.a), next_indent)], <<>>)
            \o indent \o <<"]", "}">>
    IN
    IF IsScalar(v) THEN DumpsSpaced(v)
    ELSE IF should_inline(v, c) THEN DumpsSpaced(v)
    ELSE IF v.t = "obj" THEN
        IF Len(v.kv) = 0 THEN <<"{", "}">>
        ELSE IF Len(v.kv) = 1 /\ IsIfLayout(v.kv[1][1], v.kv[1][2])
            THEN Bracket(KeyIf, v.kv[1][2])
        ELSE IF Len(v.kv) = 1 /\ IsAndOrLayout(v.kv[1][1], v.kv[1][2])
            THEN Bracket(v.kv[1][1], v.kv[1][2])
        ELSE <<"{">> \o NL
             \o Join([i \in 1..Len(v.kv) |->
                        ObjectItem(v.kv[i][1], format_value(v.kv[i][2], d + 1, c),
                                   next_indent)], <<",">> \o NL)
             \o NL \o indent \o <<"}">>
    ELSE
        IF Len(v.a) = 0 THEN <<"[", "]">>
        ELSE IF AllScalar(v) /\ SimpleFormatFits(v, c) THEN DumpsSpaced(v)
        ELSE <<"[">> \o NL
             \o Join([i \in 1..Len(v.a) |->
                        next_indent \o format_value(v.a[i], d + 1, c)], <<",">> \o NL)
             \o NL \o indent \o <<"]">>

beautify(v, c) == format_value(v, 0, c)

(***************************************************************************)
(* json.load / json.loads: the decoder.  A result is [ok, val, pos]: pos   *)
(* is the index after the value; ok = FALSE stands for JSONDecodeError.    *)
(* Numbers are the integers; the escapes \b and \uXXXX and the literals    *)
(* NaN and Infinity need characters no text of the model holds.            *)
(***************************************************************************)
Fail == [ok |-> FALSE, val |-> JNull, pos |-> 0]
Ok(v, p) == [ok |-> TRUE, val |-> v, pos |-> p]

WHITESPACE == {" ", "\t", "\n", "\r"}
DIGITS == {"0", "1", "2", "3", "4", "5", "6", "7", "8", "9"}

At(s, p) == IF p >= 1 /\ p <= Len(s) THEN s[p] ELSE "<end>"

RECURSIVE SkipWS(_, _)
SkipWS(s, p) == IF At(s, p) \in WHITESPACE THEN SkipWS(s, p + 1) ELSE p

StartsWith(s, p, w) == p + Len(w) - 1 <= Len(s) /\ SubSeq(s, p, p + Len(w) - 1) = w

DigitValue(c) == CHOOSE d \in 0..9 : Digit(d) = c

RECURSIVE ScanDigits(_, _, _)
\* the digits from p on, read as a decimal number continuing acc
ScanDigits(s, p, acc) ==
    IF At(s, p) \in DIGITS THEN ScanDigits(s, p + 1, 10 * acc + DigitValue(s[p]))
    ELSE [n |-> acc, pos |-> p]

\* NUMBER_RE: -?(0|[1-9]\d*), at p
ScanNumber(s, p) ==
    LET neg == At(s, p) = "-"
        q == IF neg THEN p + 1 ELSE p
    IN  IF At(s, q) \notin DIGITS THEN Fail
        ELSE IF At(s, q) = "0" THEN Ok(JNum(0), q + 1)
        ELSE LET r == ScanDigits(s, q, 0)
             IN  Ok(JNum(IF neg THEN -r.n ELSE r.n), r.pos)

\* the character a backslash escape stands for ("<none>" when it is no escape)
Unescape(c) ==
    CASE c = "\"" -> "\""
      [] c = "\\" -> "\\"
      [] c = "/" -> "/"
      [] c = "n" -> "\n"
      [] c = "t" -> "\t"
      [] c = "r" -> "\r"
      [] c = "f" -> "\f"
      [] OTHER -> "<none>"

RECURSIVE ScanString(_, _, _)
\* py_scanstring (strict): p is the index after the opening quote
ScanString(s, p, acc) ==
    LET c == At(s, p)
    IN  IF p > Len(s) THEN Fail                       \* unterminated string
        ELSE IF c = "\"" THEN Ok(JStr(acc), p + 1)
        ELSE IF c \in {"\n", "\t", "\r", "\f"} THEN Fail  \* invalid control character
        ELSE IF c = "\\" THEN
            IF Unescape(At(s, p + 1)) = "<none>" THEN Fail
            ELSE ScanString(s, p + 2, Append(acc, Unescape(At(s, p + 1))))
        ELSE ScanString(s, p + 1, Append(acc, c))

RECURSIVE PutPair(_, _, _)
\* pairs as dict(pairs) keeps them: a key met again keeps its place and takes the new value
PutPair(kv, k, v) ==
    IF kv = <<>> THEN << <<k, v>> >>
    ELSE IF Head(kv)[1] = k THEN << <<k, v>> >> \o Tail(kv)
    ELSE <<Head(kv)>> \o PutPair(Tail(kv), k, v)

RECURSIVE ScanOnce(_, _), ScanArrayItems(_, _, _), ScanObjectItems(_, _, _)
\* scan_once(s, p)
ScanOnce(s, p) ==
    LET c == At(s, p)
    IN  CASE c = "\"" -> ScanString(s, p + 1, <<>>)
          [] c = "{" ->
                LET q == SkipWS(s, p + 1)
                IN  IF At(s, q) = "}" THEN Ok(JObj(<<>>), q + 1)
                    ELSE ScanObjectItems(s, q, <<>>)
          [] c = "[" ->
                LET q == SkipWS(s, p + 1)
                IN  IF At(s, q) = "]" THEN Ok(JArr(<<>>), q + 1)
                    ELSE ScanArrayItems(s, q, <<>>)
          [] c = "n" -> IF StartsWith(s, p, <<"n", "u", "l", "l">>)
                            THEN Ok(JNull, p + 4) ELSE Fail
          [] c = "t" -> IF StartsWith(s, p, <<"t", "r", "u", "e">>)
                            THEN Ok(JBool(TRUE), p + 4) ELSE Fail
          [] c = "f" -> IF StartsWith(s, p, <<"f", "a", "l", "s", "e">>)
                            THEN Ok(JBool(FALSE), p + 5) ELSE Fail
          [] c \in DIGITS \cup {"-"} -> ScanNumber(s, p)
          [] OTHER -> Fail

\* JSONArray: p is at the next value
ScanArrayItems(s, p, acc) ==
    LET r == ScanOnce(s, p)
    IN  IF ~r.ok THEN Fail
        ELSE LET q == SkipWS(s, r.pos)
             IN  IF At(s, q) = "]" THEN Ok(JArr(Append(acc, r.val)), q + 1)
                 ELSE IF At(s, q) = "," THEN
                        ScanArrayItems(s, SkipWS(s, q + 1), Append(acc, r.val))
                 ELSE Fail

\* JSONObject: p is at the opening quote of the next key
ScanObjectItems(s, p, acc) ==
    IF At(s, p) # "\"" THEN Fail
    ELSE LET k == ScanString(s, p + 1, <<>>)
         IN  IF ~k.ok THEN Fail
             ELSE LET q == SkipWS(s, k.pos)
                  IN  IF At(s, q) # ":" THEN Fail
                      ELSE LET r == ScanOnce(s, SkipWS(s, q + 1))
                           IN  IF ~r.ok THEN Fail
                               ELSE LET e == SkipWS(s, r.pos)
                                        kv == PutPair(acc, k.val.s, r.val)
                                    IN  IF At(s, e) = "}" THEN Ok(JObj(kv), e + 1)
                                        ELSE IF At(s, e) = "," THEN
                                            ScanObjectItems(s, SkipWS(s, e + 1), kv)
                                        ELSE Fail

\* JSONDecoder.decode: leading whitespace, one value, trailing whitespace, nothing else
Loads(s) ==
    LET r == ScanOnce(s, SkipWS(s, 1))
    IN  IF ~r.ok THEN Fail
        ELSE IF SkipWS(s, r.pos) # Len(s) + 1 THEN Fail   \* "Extra data"
        ELSE r

(***************************************************************************)
(* The inputs of the core: JSON values and configurations.                 *)
(***************************************************************************)
KeyA == <<"a">>
KeyQuote == <<"q", "\"">>        \* a key holding a double quote
KeyBackslash == <<"\\", "\\">>   \* a key holding two backslashes

\* keys of the drawn single-key objects: every operator, the layout keys, plain keys
AllKeys ==
    {KeyVar, KeyEq, KeyNe, KeyGt, KeyLt, KeyGe, KeyLe, KeyIn, KeyCat, KeySubstr,
     KeyIf, KeyAnd, KeyOr, KeyA, KeyQuote, KeyBackslash}
\* keys of the drawn single-key objects whose value is an array
LayoutKeys == {KeyIf, KeyAnd, KeyOr, KeyVar, KeyA}
\* keys of the drawn two-key objects
PairKeys == {KeyVar, KeyA, KeyQuote}

Atoms == {JNum(1), JStr(<<"x">>), JNull}
Scalars == Atoms \cup {JBool(TRUE), JBool(FALSE), JNum(-25), JStr(<<"\"", "\n", "\\">>)}

SeqsUpTo(E, n) == UNION {[1..k -> E] : k \in 0..n}

Arrays(E) == {JArr(a) : a \in SeqsUpTo(E, MaxLen)}
Obj1(K, E) == {JObj(<< <<k, e>> >>) : k \in K, e \in E}
Obj2(K, E) ==
    {JObj(<< <<k1, e1>>, <<k2, e2>> >>) : k1 \in K, k2 \in K, e1 \in E, e2 \in E}
        \ {JObj(<< <<k, e1>>, <<k, e2>> >>) : k \in K, e1 \in E, e2 \in E}

\* the containers drawn over a set E of elements
Containers(E) ==
    Arrays(E) \cup Obj1(AllKeys, E) \cup Obj1(LayoutKeys, Arrays(E)) \cup Obj2(PairKeys, E)

\* [1, 2, ..., n]
Iota(n) == JArr([i \in 1..n |-> JNum(i)])

VarX == JObj(<< <<KeyVar, JStr(<<"x">>)>> >>)
Pair1X == JArr(<<JNum(1), JStr(<<"x">>)>>)
EqOp == JObj(<< <<KeyEq, JArr(<<VarX, JNum(1)>>)>> >>)

Nest1 == {JNum(1), Pair1X, VarX}
Nest2 == {EqOp, JArr(<<Pair1X>>)}

Iotas == {Iota(n) : n \in 0..MaxIota}

Values ==
    Scalars \cup {JObj(<<>>)} \cup Iotas \cup Obj1(AllKeys, Iotas)
    \cup Containers(Atoms) \cup Containers(Nest1) \cup Containers(Nest2)

\* argparse: --max-inline-length, --max-inline-items, --indent (each type=int)
Configs ==
    [max_inline_length : {0, 2, 7, 9, 20, 80}, max_inline_items : {0, 1, 3},
     indent : {0, MaxIndent}]

DefaultConfig == [max_inline_length |-> 80, max_inline_items |-> 3, indent |-> 4]

(***************************************************************************)
(* The core as a state machine: one value, one configuration, one depth;   *)
(* should_inline, then format_value, then json.loads of the result.        *)
(***************************************************************************)
NoText == <<"<", "n", "o", "n", "e", ">">>

CoreInit ==
    /\ mode = "core"
    /\ cfg \in Configs
    /\ obj \in Values
    /\ depth \in {0, MaxDepth}
    /\ pc = "start"
    /\ inl = FALSE
    /\ out = NoText
    /\ back = Fail
    /\ files = <<>> /\ in_place = FALSE /\ fs = <<>> /\ idx = 1 /\ stage = "done"
    /\ data = JNull /\ formatted = NoText /\ attempted = <<>>
    /\ stderr = <<>> /\ stdout = <<>> /\ opened_w = <<>>

ShouldInline ==
    /\ mode = "core" /\ pc = "start"
    /\ inl' = should_inline(obj, cfg)
    /\ pc' = "classified"
    /\ UNCHANGED <<mode, cfg, obj, depth, out, back>>
    /\ UNCHANGED cliVars

FormatValue ==
    /\ mode = "core" /\ pc = "classified"
    /\ out' = format_value(obj, depth, cfg)
    /\ pc' = "formatted"
    /\ UNCHANGED <<mode, cfg, obj, depth, inl, back>>
    /\ UNCHANGED cliVars

JsonLoads ==
    /\ mode = "core" /\ pc = "formatted"
    /\ back' = Loads(out)
    /\ pc' = "loaded"
    /\ UNCHANGED <<mode, cfg, obj, depth, inl, out>>
    /\ UNCHANGED cliVars

CoreNext == ShouldInline \/ FormatValue \/ JsonLoads

Spec == CoreInit /\ [][CoreNext]_vars

(***************************************************************************)
(* main(): the loop "for file_path in args.files".  One step is one of     *)
(* the loop body's outcomes at its stage: the exists() test ("check"),     *)
(* open + json.load + beautify ("load"), the in-place write or the print   *)
(* ("emit").  An I/O error is a choice of the environment.                 *)
(***************************************************************************)
MaxFiles == 2      \* longest args.files

Paths == {"a.json", "b.json", "c.json"}

Missing == [there |-> FALSE, text |-> <<>>]
File(text) == [there |-> TRUE, text |-> text]

\* the file contents the run may start from: two JSON documents and a truncated one
InvalidText == <<"{", "\"", "a", "\"", ":">>
Contents ==
    {Missing, File(InvalidText), File(DumpsCompact(Iota(MaxIota)) \o NL),
     File(DumpsCompact(JObj(<< <<KeyAnd, JArr(<<EqOp, VarX, JNum(1)>>)>> >>)))}

CliConfigs ==
    {DefaultConfig, [max_inline_length |-> 7, max_inline_items |-> 1, indent |-> MaxIndent]}

CliInit ==
    /\ mode = "cli"
    /\ cfg \in CliConfigs
    /\ files \in (SeqsUpTo(Paths, MaxFiles) \ {<<>>})     \* nargs='+'
    /\ in_place \in BOOLEAN
    /\ fs \in [Paths -> Contents]
    /\ idx = 1
    /\ stage = "check"
    /\ data = JNull /\ formatted = NoText
    /\ attempted = <<>> /\ stderr = <<>> /\ stdout = <<>> /\ opened_w = <<>>
    /\ obj = JNull /\ depth = 0 /\ pc = "none" /\ inl = FALSE /\ out = NoText /\ back = Fail

\* the file the loop is at
file_path == files[idx]

\* the loop goes on to the next file_path, or ends
NextFile ==
    /\ idx' = idx + 1
    /\ stage' = IF idx + 1 > Len(files) THEN "done" ELSE "check"

InLoop == mode = "cli" /\ idx <= Len(files)

\* mutant: break for continue
NotFound_Break ==
    /\ InLoop /\ stage = "check"
    /\ ~fs[file_path].there
    /\ attempted' = Append(attempted, file_path)
    /\ stderr' = Append(stderr, <<"File not found", file_path>>)
    /\ idx' = Len(files) + 1
    /\ stage' = "done"
    /\ UNCHANGED <<mode, cfg, files, in_place, fs, data, formatted, stdout, opened_w>>
    /\ UNCHANGED coreVars

\* if not path.exists(): print(..., file=sys.stderr); continue
NotFound ==
    /\ InLoop /\ stage = "check"
    /\ ~fs[file_path].there
    /\ attempted' = Append(attempted, file_path)
    /\ stderr' = Append(stderr, <<"File not found", file_path>>)
    /\ NextFile
    /\ UNCHANGED <<mode, cfg, files, in_place, fs, data, formatted, stdout, opened_w>>
    /\ UNCHANGED coreVars

\* path.exists() holds: the try block is entered
Found ==
    /\ InLoop /\ stage = "check"
    /\ fs[file_path].there
    /\ attempted' = Append(attempted, file_path)
    /\ stage' = "load"
    /\ UNCHANGED <<mode, cfg, files, in_place, fs, idx, data, formatted, stderr, stdout,
                   opened_w>>
    /\ UNCHANGED coreVars

\* data = json.load(f); formatted = beautifier.beautify(data)
LoadOk ==
    /\ InLoop /\ stage = "load"
    /\ Loads(fs[file_path].text).ok
    /\ data' = Loads(fs[file_path].text).val
    /\ formatted' = beautify(Loads(fs[file_path].text).val, cfg)
    /\ stage' = "emit"
    /\ UNCHANGED <<mode, cfg, files, in_place, fs, idx, attempted, stderr, stdout, opened_w>>
    /\ UNCHANGED coreVars

\* mutant: in --in-place mode the file is opened with 'w' before it is decoded
LoadInvalid_OpenFirst ==
    /\ InLoop /\ stage = "load"
    /\ ~Loads(fs[file_path].text).ok
    /\ stderr' = Append(stderr, <<"Invalid JSON", file_path>>)
    /\ IF in_place
         THEN fs' = [fs EXCEPT ![file_path] = File(<<>>)]
              /\ opened_w' = Append(opened_w, file_path)
         ELSE UNCHANGED <<fs, opened_w>>
    /\ NextFile
    /\ UNCHANGED <<mode, cfg, files, in_place, data, formatted, attempted, stdout>>
    /\ UNCHANGED coreVars

\* except json.JSONDecodeError as e: print(..., file=sys.stderr)
LoadInvalid ==
    /\ InLoop /\ stage = "load"
    /\ ~Loads(fs[file_path].text).ok
    /\ stderr' = Append(stderr, <<"Invalid JSON", file_path>>)
    /\ NextFile
    /\ UNCHANGED <<mode, cfg, files, in_place, fs, data, formatted, attempted, stdout,
                   opened_w>>
    /\ UNCHANGED coreVars

\* open(path, 'r') or the read raises OSError: except Exception as e: print(...)
LoadIOError ==
    /\ InLoop /\ stage = "load"
    /\ stderr' = Append(stderr, <<"Error processing", file_path>>)
    /\ NextFile
    /\ UNCHANGED <<mode, cfg, files, in_place, fs, data, formatted, attempted, stdout,
                   opened_w>>
    /\ UNCHANGED coreVars

\* with open(path, 'w') as f: f.write(formatted); f.write('\n'); print("Formatted: ...")
WriteOk ==
    /\ InLoop /\ stage = "emit" /\ in_place
    /\ opened_w' = Append(opened_w, file_path)
    /\ fs' = [fs EXCEPT ![file_path] = File(formatted \o NL)]
    /\ stdout' = Append(stdout, <<"Formatted", file_path>>)
    /\ NextFile
    /\ UNCHANGED <<mode, cfg, files, in_place, data, formatted, attempted, stderr>>
    /\ UNCHANGED coreVars

\* open(path, 'w') raises (the file is left as it was), or a write raises after the
\* open has truncated the file (what was written before the error stays)
WriteIOError ==
    /\ InLoop /\ stage = "emit" /\ in_place
    /\ \/ /\ UNCHANGED <<fs, opened_w>>
       \/ /\ opened_w' = Append(opened_w, file_path)
          /\ fs' \in {[fs EXCEPT ![file_path] = File(<<>>)],
                      [fs EXCEPT ![file_path] = File(formatted)]}
    /\ stderr' = Append(stderr, <<"Error processing", file_path>>)
    /\ NextFile
    /\ UNCHANGED <<mode, cfg, files, in_place, data, formatted, attempted, stdout>>
    /\ UNCHANGED coreVars

\* print(f"# {file_path}"); print(formatted); print()
PrintOut ==
    /\ InLoop /\ stage = "emit" /\ ~in_place
    /\ stdout' = Append(stdout, <<"#", file_path, formatted>>)
    /\ NextFile
    /\ UNCHANGED <<mode, cfg, files, in_place, fs, data, formatted, attempted, stderr,
                   opened_w>>
    /\ UNCHANGED coreVars

CliNext ==
    \/ NotFound \/ Found
    \/ LoadIOError \/ LoadInvalid \/ LoadOk
    \/ WriteIOError \/ WriteOk \/ PrintOut

CliSpec == CliInit /\ [][CliNext]_vars

\* the interpreter runs the loop body to its end: a step that can be taken is taken
CliFairSpec == CliInit /\ [][CliNext]_vars /\ WF_vars(CliNext)

(***************************************************************************)
(* Vocabulary of the properties.                                           *)
(***************************************************************************)
RECURSIVE JsonEq(_, _)
\* structural equality of two JSON values (Python ==: the order of a dict's keys is ignored)
JsonEq(a, b) ==
    /\ a.t = b.t
    /\ CASE a.t = "arr" ->
              /\ Len(a.a) = Len(b.a)
              /\ \A i \in 1..Len(a.a) : JsonEq(a.a[i], b.a[i])
         [] a.t = "obj" ->
              /\ Len(a.kv) = Len(b.kv)
              /\ \A i \in 1..Len(a.kv) : \E j \in 1..Len(b.kv) :
                    a.kv[i][1] = b.kv[j][1] /\ JsonEq(a.kv[i][2], b.kv[j][2])
         [] OTHER -> a = b

IsContainer(v) == v.t \in {"arr", "obj"}

\* the text holds no line break
OneLine(text) == \A i \in 1..Len(text) : text[i] # "\n"

\* the number of line breaks of the text
LineBreaks(text) == Cardinality({i \in 1..Len(text) : text[i] = "\n"})

\* n spaces
Spaces(n) == [i \in 1..n |-> " "]

RECURSIVE Concat(_)
\* the texts of a sequence, one after the other
Concat(texts) == IF texts = <<>> THEN <<>> ELSE Head(texts) \o Concat(Tail(texts))

RECURSIVE CompactLen(_)
\* the number of characters of the encoding with separators ',' and ':', counted
\* part by part: brackets, one comma between neighbours, one colon per key
CompactLen(v) ==
    IF v.t = "arr" THEN
        2 + (IF Len(v.a) = 0 THEN 0 ELSE Len(v.a) - 1)
          + Len(Concat([i \in 1..Len(v.a) |-> Spaces(CompactLen(v.a[i]))]))
    ELSE IF v.t = "obj" THEN
        2 + (IF Len(v.kv) = 0 THEN 0 ELSE Len(v.kv) - 1)
          + Len(Concat([i \in 1..Len(v.kv) |->
                  Spaces(Len(DumpsStr(v.kv[i][1])) + 1 + CompactLen(v.kv[i][2]))]))
    ELSE Len(DumpsSpaced(v))

RECURSIVE Descendants(_)
\* every value nested anywhere inside v (v itself is not one of them)
Descendants(v) ==
    IF ~IsContainer(v) THEN {}
    ELSE UNION {{Children(v)[i]} \cup Descendants(Children(v)[i]) : i \in 1..Size(v)}

\* the layout '{ "<key>": [', one element per line at depth+1, ']}' at depth
BracketLayoutText(key, items, d, c) ==
    <<"{", " ", "\"">> \o key \o <<"\"", ":", " ", "[", "\n">>
    \o Concat([i \in 1..Len(items) |->
                 Spaces((d + 1) * c.indent) \o format_value(items[i], d + 1, c)
                 \o (IF i < Len(items) THEN <<",", "\n">> ELSE <<"\n">>)])
    \o Spaces(d * c.indent) \o <<"]", "}">>

\* the layout '{', one '"key": value' line at depth+1, '}' at depth
GenericLayoutText(key, value, d, c) ==
    <<"{", "\n">> \o Spaces((d + 1) * c.indent) \o <<"\"">> \o key \o <<"\"", ":", " ">>
    \o format_value(value, d + 1, c) \o <<"\n">> \o Spaces(d * c.indent) \o <<"}">>

\* '[', one element per line at depth+1, ']' at depth
ArrayLinesText(items, d, c) ==
    <<"[", "\n">>
    \o Concat([i \in 1..Len(items) |->
                 Spaces((d + 1) * c.indent) \o DumpsSpaced(items[i])
                 \o (IF i < Len(items) THEN <<",", "\n">> ELSE <<"\n">>)])
    \o Spaces(d * c.indent) \o <<"]">>

IsScalarArray(v) == v.t = "arr" /\ \A i \in 1..Len(v.a) : IsScalar(v.a[i])

Formatted == mode = "core" /\ pc \in {"formatted", "loaded"}

\* a configuration the interface allows: max_inline_length > 0, the other two >= 0
ValidConfig(c) == c.max_inline_length > 0 /\ c.max_inline_items >= 0 /\ c.indent >= 0

(***************************************************************************)
(* C1.  Round trip: parsing beautify(v) = format_value(v, 0) as JSON       *)
(* yields a value structurally equal to v, for every value v (objects      *)
(* whose keys hold a double quote or a backslash included) and every       *)
(* configuration.                                                          *)
(***************************************************************************)
C1_RoundTrip ==
    (mode = "core" /\ pc = "loaded" /\ depth = 0 /\ ValidConfig(cfg))
        => (back.ok /\ JsonEq(back.val, obj))

C3_OneLineWidth ==
    (Formatted /\ ValidConfig(cfg) /\ IsContainer(obj) /\ Size(obj) > 0 /\ OneLine(out))
        => Len(out) <= cfg.max_inline_length

(***************************************************************************)
(* C4.  For a single-key object whose key is one of var, ==, !=, >, <, >=, *)
(* <=, in, cat, substr, should_inline(object) equals should_inline(its     *)
(* value): neither the item count nor the compact length of the wrapper    *)
(* is tested.  So {"var": "x"} is inline-eligible and rendered as          *)
(* {"var": "x"} whatever max_inline_items and max_inline_length are.       *)
(***************************************************************************)
C4_OperatorKeys ==
    {<<"v", "a", "r">>, <<"=", "=">>, <<"!", "=">>, <<">">>, <<"<">>, <<">", "=">>,
     <<"<", "=">>, <<"i", "n">>, <<"c", "a", "t">>, <<"s", "u", "b", "s", "t", "r">>}

C5_Bracket(key, value) ==
    \/ key = <<"i", "f">> /\ value.t = "arr" /\ Len(value.a) >= 2
    \/ key \in {<<"a", "n", "d">>, <<"o", "r">>} /\ value.t = "arr" /\ Len(value.a) > 2

C5_SingleKeyLayout ==
    (Formatted /\ obj.t = "obj" /\ Len(obj.kv) = 1 /\ ~inl)
        => LET key == obj.kv[1][1]
               value == obj.kv[1][2]
           IN  IF C5_Bracket(key, value)
                 THEN /\ out = BracketLayoutText(key, value.a, depth, cfg)
                      /\ out # GenericLayoutText(key, value, depth, cfg)
                 ELSE /\ out = GenericLayoutText(key, value, depth, cfg)
                      /\ SubSeq(out, 1, 2) = <<"{", "\n">>

\* {"and": [a, b]} with exactly two elements, not inline-eligible: the generic layout
C5_Witness ==
    /\ Formatted /\ ~inl /\ obj.t = "obj" /\ Len(obj.kv) = 1
    /\ obj.kv[1][1] = KeyAnd /\ obj.kv[1][2].t = "arr" /\ Len(obj.kv[1][2].a) = 2
    /\ depth = MaxDepth /\ cfg.indent = MaxIndent
    /\ out = GenericLayoutText(KeyAnd, obj.kv[1][2], depth, cfg)

(***************************************************************************)
(* C6.  With max_inline_length >= 2 and max_inline_items >= 0, at every    *)
(* depth, the empty object is inline-eligible and rendered as {} and the   *)
(* empty array is inline-eligible and rendered as [].                      *)
(***************************************************************************)
C6_Empty ==
    (Formatted /\ cfg.max_inline_length >= 2 /\ cfg.max_inline_items >= 0)
        => /\ obj = JObj(<<>>) => inl /\ out = <<"{", "}">>
           /\ obj = JArr(<<>>) => inl /\ out = <<"[", "]">>

\* the empty object at the threshold max_inline_length = 2, max_inline_items = 0, depth > 0
C6_Witness ==
    /\ Formatted /\ obj = JObj(<<>>) /\ inl
    /\ cfg.max_inline_length = 2 /\ cfg.max_inline_items = 0 /\ depth = MaxDepth

(***************************************************************************)
(* C8.  For an object or array that is not a single-key operator           *)
(* shorthand, should_inline is true if and only if its item count is       *)
(* <= max_inline_items, every value or element is inline-eligible, and the *)
(* length of its compact encoding (separators ',' and ':') is              *)
(* <= max_inline_length.  A single-key object whose key is no operator is  *)
(* decided by this rule.                                                   *)
(***************************************************************************)
C8_GenericRule ==
    (mode = "core" /\ pc # "start" /\ IsContainer(obj)
        /\ ~(obj.t = "obj" /\ Len(obj.kv) = 1 /\ obj.kv[1][1] \in C4_OperatorKeys))
        => (inl <=> /\ Size(obj) <= cfg.max_inline_items
                    /\ \A i \in 1..Size(obj) : should_inline(Children(obj)[i], cfg)
                    /\ CompactLen(obj) <= cfg.max_inline_length)

\* a single-key object with a key that is no operator, rejected by the length test alone
C8_Witness ==
    /\ mode = "core" /\ pc = "classified" /\ ~inl
    /\ obj.t = "obj" /\ Len(obj.kv) = 1 /\ obj.kv[1][1] = KeyIf
    /\ Size(obj) <= cfg.max_inline_items
    /\ \A i \in 1..Size(obj) : should_inline(Children(obj)[i], cfg)
    /\ CompactLen(obj) = cfg.max_inline_length + 1

(***************************************************************************)
(* C9.  Inline eligibility is downward closed: when should_inline(v) is    *)
(* true of a container v, it is true of every value nested anywhere in v,  *)
(* under the same configuration; and a one-line rendering holds no nested  *)
(* value that should_inline rejects.                                       *)
(***************************************************************************)
C9_DownwardClosed ==
    (Formatted /\ IsContainer(obj) /\ (inl \/ OneLine(out)))
        => \A d \in Descendants(obj) : should_inline(d, cfg)

\* an eligible operator shorthand, longer than max_inline_length, around an array
\* around an operator shorthand
C9_Witness ==
    /\ Formatted /\ inl /\ OneLine(out) /\ IsShorthand(obj)
    /\ obj.kv[1][2].t = "arr" /\ VarX \in Descendants(obj)
    /\ CompactLen(obj) > cfg.max_inline_length

(***************************************************************************)
(* C7.  A failure on one file (not found, invalid JSON, an I/O error while *)
(* reading or writing) is reported and does not end the run: the paths are *)
(* attempted in the order of the argument list, every file that has been   *)
(* dealt with has left its report, and in the end every path of the list   *)
(* has been attempted.                                                     *)
(***************************************************************************)
C7_InOrder ==
    /\ Len(attempted) <= Len(files)
    /\ \A i \in 1..Len(attempted) : attempted[i] = files[i]
    /\ Len(attempted) = (IF stage = "check" THEN idx - 1 ELSE IF stage = "done" THEN Len(files) ELSE idx)
    /\ Len(stderr) + Len(stdout) = idx - 1

C7_AllAttempted == [](mode = "cli" => C7_InOrder) /\ <>[](stage = "done" /\ attempted = files)

\* the first file was reported as invalid JSON, and the second was still formatted
C7_Witness ==
    /\ mode = "cli" /\ stage = "done" /\ Len(files) = 2 /\ attempted = files
    /\ stderr = << <<"Invalid JSON", files[1]>> >>
    /\ Len(stdout) = 1 /\ stdout[1][2] = files[2]

(***************************************************************************)
(* C10.  A file is opened for writing only in --in-place mode and only     *)
(* after it has been read, decoded and beautified: a step changes the file *)
(* system only at the write of the file the loop is at, whose content was  *)
(* there and was valid JSON; without --in-place no file is ever written.   *)
(***************************************************************************)
C10_Step ==
    /\ (fs' # fs \/ opened_w' # opened_w)
          => /\ in_place /\ stage = "emit"
             /\ fs[file_path].there /\ Loads(fs[file_path].text).ok
             /\ data = Loads(fs[file_path].text).val
             /\ formatted = beautify(data, cfg)
             /\ \A p \in Paths \ {file_path} : fs'[p] = fs[p]
    /\ ~in_place => (fs' = fs /\ opened_w' = <<>>)

C10_WriteAfterLoad == [][C10_Step]_vars

\* --in-place: a missing file and a file of invalid JSON were attempted and left as they
\* were (one of them), and the other file of the list was rewritten
C10_Witness ==
    /\ mode = "cli" /\ in_place /\ stage = "done" /\ Len(files) = 2
    /\ fs[files[1]] \in {Missing, File(InvalidText)}
    /\ Len(stderr) = 1 /\ stderr[1][2] = files[1]
    /\ opened_w = <<files[2]>> /\ fs[files[2]] = File(formatted \o NL)

====
